---- MODULE Spec2Model ----
(***************************************************************************)
(* Model of rustic's configuration profile resolution (src/src/config.rs): *)
(* RusticConfig::merge_profile, the derived field-wise Merge of            *)
(* GlobalOptions, get_config_paths and CommandInput::run.                  *)
(***************************************************************************)
EXTENDS Integers, Sequences, FiniteSets, TLC

(***************************************************************************)
(* Bounds of the model.                                                    *)
(***************************************************************************)
\* total number of use-profile entries over all profile files on disk
MaxRefs == 2
\* number of nested merge_profile activations the stack can hold
MaxDepth == 4
\* number of merges applied to one accumulator in MergeSpec
MaxMerges == 2
\* number of hook invocations in RunSpec
MaxRuns == 2
\* number of tokens of a command hook in RunSpec
MaxTokens == 2

\* names of the profile files that may exist on disk
Profiles == {"A", "B", "C"}

\* the profile the top-level caller asks for
StartProfile == "A"

VARIABLES
    user_dir,       \* ProjectDirs::from("", "", "rustic") is Some
    global_dir,     \* get_global_config_path() is Some
    conf_dir,       \* the directory that holds the profile files
    files,          \* the profile files: state and parsed document
    level_missing,  \* merge_profile's level_missing argument at top level
    self0,          \* the accumulator as it was before the top-level call
    self,           \* the accumulator merge_profile is called on
    stack,          \* activations of merge_profile that hold a parsed config
    merge_logs,     \* merge_profile's merge_logs vector
    status,         \* position / result of the top-level merge_profile call
    calls,          \* number of merge_profile calls entered so far
    acc,            \* MergeSpec: accumulator of a plain sequence of merges
    before,         \* MergeSpec: acc before the last merge
    incoming,       \* MergeSpec: the document merged last
    again,          \* MergeSpec: the last merge repeated the one before
    merges,         \* MergeSpec: number of merges done
    hook,           \* RunSpec: the CommandInput
    spawned,        \* RunSpec: the processes spawned so far
    warnings,       \* RunSpec: number of warn! lines emitted
    outcome,        \* RunSpec: what the operating system did in the last run
    result,         \* RunSpec: what the last run returned
    runs            \* RunSpec: number of runs done

profile_vars == <<user_dir, global_dir, conf_dir, files, level_missing, self0,
                  self, stack, merge_logs, status, calls>>
merge_vars == <<acc, before, incoming, again, merges>>
run_vars == <<hook, spawned, warnings, outcome, result, runs>>
vars == <<profile_vars, merge_vars, run_vars>>

(***************************************************************************)
(* Values.  An Option<T> is a sequence of length at most one.              *)
(***************************************************************************)
None == <<>>
Some(v) == <<v>>

\* the value each profile file gives to its scalar fields when it sets them
OwnLevel == [A |-> "trace", B |-> "debug", C |-> "warn"]
OwnFile == [A |-> "a.log", B |-> "b.log", C |-> "c.log"]
OwnValue == [A |-> "va", B |-> "vb", C |-> "vc"]
OwnKey == [A |-> "KA", B |-> "KB", C |-> "KC"]
OwnCommand == [A |-> "cmd-a", B |-> "cmd-b", C |-> "cmd-c"]

\* the empty HashMap
EmptyMap == [k \in {} |-> "x"]

\* RusticConfig::default(), restricted to GlobalOptions
DefaultConfig ==
    [use_profile |-> <<>>, dry_run |-> FALSE, log_level |-> None,
     log_file |-> None, env |-> EmptyMap, run_before |-> <<>>,
     run_after |-> <<>>]

(***************************************************************************)
(* MergePolicy: the merge strategies of the fields.                        *)
(***************************************************************************)
\* merge::vec::append
VecAppend(left, right) == left \o right

\* merge::bool::overwrite_false
BoolOverwriteFalse(left, right) == IF ~left THEN right ELSE left

\* a variant of the Option merge in which the incoming value always wins
OptionOverwrite(left, right) == IF right # None THEN right ELSE left

\* Merge for Option<T>, the default strategy of a field without an attribute
OptionMerge(left, right) == IF left = None THEN right ELSE left

\* extend: HashMap::extend, incoming keys replace existing ones
Extend(left, right) ==
    [k \in DOMAIN left \union DOMAIN right |->
        IF k \in DOMAIN right THEN right[k] ELSE left[k]]

\* a variant of the hook merge in which a set incoming hook replaces the old
VecOverwrite(left, right) == IF right # <<>> THEN right ELSE left

\* a variant of the hook merge that appends, as merge::vec::append does
VecAppendHook(left, right) == left \o right

\* merge::vec::overwrite_empty, the strategy of CommandInputInternal
VecOverwriteEmpty(left, right) == IF left = <<>> THEN right ELSE left

\* the derived Merge of RusticConfig / GlobalOptions: field by field
Merge(left, right) ==
    [use_profile |-> VecAppend(left.use_profile, right.use_profile),
     dry_run |-> BoolOverwriteFalse(left.dry_run, right.dry_run),
     log_level |-> OptionMerge(left.log_level, right.log_level),
     log_file |-> OptionMerge(left.log_file, right.log_file),
     env |-> Extend(left.env, right.env),
     run_before |-> VecOverwriteEmpty(left.run_before, right.run_before),
     run_after |-> VecOverwriteEmpty(left.run_after, right.run_after)]

(***************************************************************************)
(* PathResolver: get_config_paths and the probe of the candidates.         *)
(***************************************************************************)
\* profile.to_string() + ".toml"
ProfileFilename(profile) == <<profile, ".toml">>

\* the directories that are Some on the running platform, in probe order
ConfigDirs ==
    (IF user_dir THEN <<"user-config-dir">> ELSE <<>>)
    \o (IF global_dir THEN <<"global-config-dir">> ELSE <<>>)
    \o <<".">>

\* get_config_paths: filename pushed onto every directory that is Some
get_config_paths(filename) ==
    [i \in 1..Len(ConfigDirs) |-> [dir |-> ConfigDirs[i], file |-> filename]]

\* path.exists()
Exists(path) ==
    path.dir = conf_dir /\ files[path.file[1]].state # "missing"

\* paths.iter().find(|path| path.exists()): index of the first existing
\* candidate, 0 when none exists
FindExisting(paths) ==
    IF \E i \in 1..Len(paths) : Exists(paths[i])
    THEN CHOOSE i \in 1..Len(paths) :
            Exists(paths[i]) /\ \A j \in 1..(i - 1) : ~Exists(paths[j])
    ELSE 0

(***************************************************************************)
(* ProfileMerger: RusticConfig::merge_profile as a stack machine.          *)
(***************************************************************************)
\* a variant in which a missing nested profile is logged like a found one
NestedLevelInfo == "Info"

\* the level_missing argument of the recursive call
NestedLevel == "Warn"

\* a variant that writes one log entry for every probed path
MissingEntryPerPath(level, paths) ==
    [i \in 1..Len(paths) |->
        [level |-> level, msg |-> "using no config file", paths |-> <<paths[i]>>]]

\* the log entry of the else branch: one entry listing all probed paths
MissingEntries(level, paths) ==
    << [level |-> level, msg |-> "using no config file", paths |-> paths] >>

\* the log entry of the found branch
UsingEntries(path) ==
    << [level |-> "Info", msg |-> "using config", paths |-> <<path>>] >>

\* a variant of the loop that walks the config's live use_profile vector
LoopSourceLive(frame) == frame.config.use_profile

\* the vector the for loop walks: config.global.use_profile.clone()
LoopSource(frame) == frame.uses

\* a variant in which every nested profile is merged into the accumulator
MergeIntoSelf(depth) == 0

\* the activation whose value receives self.merge(config) when the
\* activation at `depth` returns: its caller's config, 0 being the accumulator
MergeTarget(depth) == depth - 1

Top == stack[Len(stack)]

\* a merge_profile call is about to be entered
HasPending ==
    \/ status = "init"
    \/ /\ status = "running"
       /\ stack # <<>>
       /\ Top.idx <= Len(LoopSource(Top))

PendingProfile ==
    IF status = "init" THEN StartProfile ELSE LoopSource(Top)[Top.idx]

PendingLevel == IF status = "init" THEN level_missing ELSE NestedLevel

PendingPaths == get_config_paths(ProfileFilename(PendingProfile))

\* the caller's loop moves on to its next profile
Advance(s) == [s EXCEPT ![Len(s)].idx = @ + 1]

\* merge_profile, else branch: no candidate exists
CallMissing ==
    /\ HasPending
    /\ FindExisting(PendingPaths) = 0
    /\ merge_logs' = merge_logs \o MissingEntries(PendingLevel, PendingPaths)
    /\ calls' = calls + 1
    /\ IF status = "init"
       THEN status' = "ok" /\ stack' = stack
       ELSE status' = status /\ stack' = Advance(stack)
    /\ UNCHANGED <<user_dir, global_dir, conf_dir, files, level_missing, self0,
                   self, merge_vars, run_vars>>

\* merge_profile, found branch: canonicalize or load_toml_file fails and
\* the error propagates through every caller
CallError ==
    /\ HasPending
    /\ FindExisting(PendingPaths) # 0
    /\ files[PendingProfile].state = "bad"
    /\ merge_logs' =
          merge_logs \o UsingEntries(PendingPaths[FindExisting(PendingPaths)])
    /\ calls' = calls + 1
    /\ status' = "err"
    /\ stack' = <<>>
    /\ UNCHANGED <<user_dir, global_dir, conf_dir, files, level_missing, self0,
                   self, merge_vars, run_vars>>

\* merge_profile, found branch: the file is parsed into config
CallFound ==
    /\ HasPending
    /\ FindExisting(PendingPaths) # 0
    /\ files[PendingProfile].state = "ok"
    /\ Len(stack) < MaxDepth
    /\ merge_logs' =
          merge_logs \o UsingEntries(PendingPaths[FindExisting(PendingPaths)])
    /\ calls' = calls + 1
    /\ status' = "running"
    /\ stack' = Append(stack,
                    [profile |-> PendingProfile,
                     config |-> files[PendingProfile].doc,
                     uses |-> files[PendingProfile].doc.use_profile,
                     idx |-> 1])
    /\ UNCHANGED <<user_dir, global_dir, conf_dir, files, level_missing, self0,
                   self, merge_vars, run_vars>>

\* the recursion is deeper than the stack: the process aborts
CallOverflow ==
    /\ HasPending
    /\ FindExisting(PendingPaths) # 0
    /\ files[PendingProfile].state = "ok"
    /\ Len(stack) = MaxDepth
    /\ status' = "overflow"
    /\ UNCHANGED <<user_dir, global_dir, conf_dir, files, level_missing, self0,
                   self, stack, merge_logs, calls, merge_vars, run_vars>>

\* the loop is over: self.merge(config); Ok(())
Return ==
    /\ status = "running"
    /\ stack # <<>>
    /\ Top.idx > Len(LoopSource(Top))
    /\ LET n == Len(stack)
           t == MergeTarget(n)
           rest == SubSeq(stack, 1, n - 1)
           merged == IF t = 0 THEN rest
                     ELSE [rest EXCEPT ![t].config = Merge(@, Top.config)]
       IN /\ self' = IF t = 0 THEN Merge(self, Top.config) ELSE self
          /\ stack' = IF n = 1 THEN <<>> ELSE Advance(merged)
          /\ status' = IF n = 1 THEN "ok" ELSE status
    /\ UNCHANGED <<user_dir, global_dir, conf_dir, files, level_missing, self0,
                   merge_logs, calls, merge_vars, run_vars>>

(***************************************************************************)
(* The initial states: the platform, the files on disk, the accumulator.   *)
(***************************************************************************)
UseLists == UNION {[1..k -> Profiles] : k \in 0..MaxRefs}

Shapes ==
    {[state |-> "missing", uses |-> <<>>, set |-> FALSE],
     [state |-> "bad", uses |-> <<>>, set |-> FALSE]}
    \union {[state |-> "ok", uses |-> u, set |-> s] :
                u \in UseLists, s \in BOOLEAN}

RECURSIVE TotalRefs(_, _)
TotalRefs(shape, S) ==
    IF S = {} THEN 0
    ELSE LET p == CHOOSE x \in S : TRUE
         IN Len(shape[p].uses) + TotalRefs(shape, S \ {p})

\* the document parsed from profile p's file
ProfileDoc(p, uses, set) ==
    IF set
    THEN [use_profile |-> uses, dry_run |-> TRUE,
          log_level |-> Some(OwnLevel[p]), log_file |-> Some(OwnFile[p]),
          env |-> ("K" :> OwnValue[p]) @@ (OwnKey[p] :> OwnValue[p]),
          run_before |-> <<OwnCommand[p], "--flag">>,
          run_after |-> <<OwnCommand[p]>>]
    ELSE [DefaultConfig EXCEPT !.use_profile = uses]

\* an accumulator that already carries values (command line, environment,
\* a profile merged earlier)
SeededConfig ==
    [use_profile |-> <<StartProfile>>, dry_run |-> FALSE,
     log_level |-> Some("error"), log_file |-> None,
     env |-> ("K" :> "v0"), run_before |-> <<"cli-cmd">>, run_after |-> <<>>]

IdleMerge ==
    /\ acc = DefaultConfig /\ before = DefaultConfig
    /\ incoming = DefaultConfig /\ again = FALSE /\ merges = 0

IdleRun ==
    /\ hook = <<>> /\ spawned = <<>> /\ warnings = 0
    /\ outcome = "none" /\ result = "none" /\ runs = 0

Init ==
    /\ \E shape \in [Profiles -> Shapes] :
          /\ TotalRefs(shape, Profiles) <= MaxRefs
          /\ files = [p \in Profiles |->
                        [state |-> shape[p].state,
                         doc |-> ProfileDoc(p, shape[p].uses, shape[p].set)]]
    /\ user_dir \in BOOLEAN
    /\ global_dir \in BOOLEAN
    /\ conf_dir \in {ConfigDirs[i] : i \in 1..Len(ConfigDirs)}
    /\ level_missing \in {"Info", "Debug"}
    /\ self0 \in {DefaultConfig, SeededConfig}
    /\ self = self0
    /\ stack = <<>>
    /\ merge_logs = <<>>
    /\ status = "init"
    /\ calls = 0
    /\ IdleMerge
    /\ IdleRun

Next == CallMissing \/ CallError \/ CallFound \/ CallOverflow \/ Return

Spec == Init /\ [][Next]_vars

(***************************************************************************)
(* MergeSpec: a plain sequence of merges into one accumulator.             *)
(***************************************************************************)
\* documents that differ from the default in one field, and whole documents
MergeDocs ==
    {DefaultConfig}
    \union {[DefaultConfig EXCEPT !.use_profile = u] : u \in {<<"B">>, <<"B", "C">>}}
    \union {[DefaultConfig EXCEPT !.dry_run = TRUE]}
    \union {[DefaultConfig EXCEPT !.log_level = Some(l)] : l \in {"info", "debug"}}
    \union {[DefaultConfig EXCEPT !.log_file = Some(f)] : f \in {"x.log", "y.log"}}
    \union {[DefaultConfig EXCEPT !.env = e] :
                e \in {"K" :> "1", "K" :> "2", ("K" :> "3") @@ ("L" :> "3")}}
    \union {[DefaultConfig EXCEPT !.run_before = c] : c \in {<<"x">>, <<"y", "-v">>}}
    \union {[DefaultConfig EXCEPT !.run_after = c] : c \in {<<"x">>, <<"z">>}}
    \union {ProfileDoc("A", <<"B">>, TRUE), ProfileDoc("B", <<>>, TRUE), SeededConfig}

IdleProfile ==
    /\ user_dir = TRUE /\ global_dir = TRUE /\ conf_dir = "."
    /\ files = [p \in Profiles |-> [state |-> "missing", doc |-> DefaultConfig]]
    /\ level_missing = "Info"
    /\ self0 = DefaultConfig /\ self = DefaultConfig
    /\ stack = <<>> /\ merge_logs = <<>> /\ status = "idle" /\ calls = 0

MergeInit ==
    /\ acc \in MergeDocs
    /\ before = acc
    /\ incoming = DefaultConfig
    /\ again = FALSE
    /\ merges = 0
    /\ IdleProfile
    /\ IdleRun

\* acc.merge(doc)
MergeDoc ==
    /\ merges < MaxMerges
    /\ \E doc \in MergeDocs :
          /\ incoming' = doc
          /\ acc' = Merge(acc, doc)
    /\ before' = acc
    /\ again' = FALSE
    /\ merges' = merges + 1
    /\ UNCHANGED <<profile_vars, run_vars>>

\* acc.merge(doc.clone()) with the document merged in the step before
MergeAgain ==
    /\ merges >= 1
    /\ merges < MaxMerges
    /\ acc' = Merge(acc, incoming)
    /\ before' = acc
    /\ again' = TRUE
    /\ merges' = merges + 1
    /\ UNCHANGED <<incoming, profile_vars, run_vars>>

MergeNext == MergeDoc \/ MergeAgain

MergeSpec == MergeInit /\ [][MergeNext]_vars

(***************************************************************************)
(* RunSpec: CommandInput::run.                                             *)
(***************************************************************************)
HookTokens == {"sh", "-c", "true"}

Hooks == UNION {[1..k -> HookTokens] : k \in 0..MaxTokens}

\* CommandInput::is_set
is_set(c) == c # <<>>

\* CommandInput::command
command(c) == c[1]

\* CommandInput::args
args(c) == SubSeq(c, 2, Len(c))

\* a variant of run that propagates a non-zero exit status as an error
RunResultStrict(o) == IF o \in {"not-set", "exit-0"} THEN "Ok" ELSE "Err"

\* what run returns: the ? on status() is the only error path
RunResult(o) == IF o = "spawn-failed" THEN "Err" ELSE "Ok"

RunInit ==
    /\ hook \in Hooks
    /\ spawned = <<>>
    /\ warnings = 0
    /\ outcome = "none"
    /\ result = "none"
    /\ runs = 0
    /\ IdleProfile
    /\ IdleMerge

\* run on a command that is not set
RunNotSet ==
    /\ runs < MaxRuns
    /\ ~is_set(hook)
    /\ outcome' = "not-set"
    /\ result' = RunResult("not-set")
    /\ runs' = runs + 1
    /\ UNCHANGED <<hook, spawned, warnings, profile_vars, merge_vars>>

\* run on a set command: Command::status() cannot spawn the process
RunSpawnFailed ==
    /\ runs < MaxRuns
    /\ is_set(hook)
    /\ outcome' = "spawn-failed"
    /\ result' = RunResult("spawn-failed")
    /\ runs' = runs + 1
    /\ UNCHANGED <<hook, spawned, warnings, profile_vars, merge_vars>>

\* run on a set command: the process is spawned, waited for and exits
RunExited ==
    /\ runs < MaxRuns
    /\ is_set(hook)
    /\ \E code \in {0, 1} :
          /\ spawned' = Append(spawned,
                [program |-> command(hook), args |-> args(hook), code |-> code])
          /\ warnings' = IF code # 0 THEN warnings + 1 ELSE warnings
          /\ outcome' = IF code = 0 THEN "exit-0" ELSE "exit-1"
          /\ result' = RunResult(IF code = 0 THEN "exit-0" ELSE "exit-1")
    /\ runs' = runs + 1
    /\ UNCHANGED <<hook, profile_vars, merge_vars>>

RunNext == RunNotSet \/ RunSpawnFailed \/ RunExited

RunSpec == RunInit /\ [][RunNext]_vars

(***************************************************************************)
(* The use-profile reference graph of the files on disk.                   *)
(***************************************************************************)
\* the profiles a parsed file lists in use-profile
Uses(p) ==
    IF files[p].state = "ok"
    THEN {files[p].doc.use_profile[i] : i \in DOMAIN files[p].doc.use_profile}
    ELSE {}

RECURSIVE ReachN(_, _)
ReachN(S, n) ==
    IF n = 0 THEN S ELSE ReachN(S \union UNION {Uses(p) : p \in S}, n - 1)

\* the profiles reachable from p in one or more references
Descendants(p) == ReachN(Uses(p), Cardinality(Profiles))

\* no profile reachable from the start profile references itself
Acyclic ==
    \A p \in ReachN({StartProfile}, Cardinality(Profiles)) : p \notin Descendants(p)

\* number of merge_profile calls when every reference occurrence of a parsed
\* document is resolved exactly once (defined on an acyclic graph)
RECURSIVE ExpectedCalls(_, _)
RECURSIVE ExpectedCallsOfList(_, _)
ExpectedCalls(p, fuel) ==
    IF fuel = 0 THEN 0
    ELSE IF files[p].state = "ok"
         THEN 1 + ExpectedCallsOfList(files[p].doc.use_profile, fuel - 1)
         ELSE 1
ExpectedCallsOfList(list, fuel) ==
    IF list = <<>> THEN 0
    ELSE ExpectedCalls(Head(list), fuel) + ExpectedCallsOfList(Tail(list), fuel)

FileOk(p) == files[p].state = "ok"
FileSets(p) == FileOk(p) /\ files[p].doc.log_level # None
StartPaths == get_config_paths(ProfileFilename(StartProfile))
LastLog == merge_logs[Len(merge_logs)]

(***************************************************************************)
(* Claims.                                                                 *)
(***************************************************************************)
\* the chain of C1: A lists exactly B, B lists exactly C, all three parse
Chain ==
    /\ FileOk("A") /\ FileOk("B") /\ FileOk("C")
    /\ files["A"].doc.use_profile = <<"B">>
    /\ files["B"].doc.use_profile = <<"C">>
    /\ files["C"].doc.use_profile = <<>>

\* C1: for the chain A uses B, B uses C merged into a fresh default
\* accumulator, log_level ends as A's value, else B's if A leaves it unset,
\* else C's if A and B leave it unset.
C1_ChainPrecedence ==
    (status = "ok" /\ Chain /\ self0 = DefaultConfig) =>
        self.log_level =
            IF files["A"].doc.log_level # None THEN files["A"].doc.log_level
            ELSE IF files["B"].doc.log_level # None THEN files["B"].doc.log_level
            ELSE files["C"].doc.log_level

C1_Witness ==
    /\ status = "ok" /\ Chain /\ self0 = DefaultConfig
    /\ FileSets("A") /\ FileSets("B") /\ FileSets("C")
    /\ self.log_level = Some(OwnLevel["A"])

\* C2 as stated: whenever the incoming document sets log_level / log_file,
\* the accumulator holds the incoming value after the merge.
C2_IncomingOverwrites ==
    merges >= 1 =>
        /\ incoming.log_level # None => acc.log_level = incoming.log_level
        /\ incoming.log_file # None => acc.log_file = incoming.log_file

\* C2 amended: log_level / log_file take the incoming value only when the
\* accumulator's value is unset; a value the accumulator holds is kept.
C2_ExistingKept ==
    merges >= 1 =>
        /\ acc.log_level =
              IF before.log_level # None THEN before.log_level
              ELSE incoming.log_level
        /\ acc.log_file =
              IF before.log_file # None THEN before.log_file
              ELSE incoming.log_file

C2_Witness ==
    /\ merges >= 1
    /\ before.log_level # None /\ incoming.log_level # None
    /\ before.log_level # incoming.log_level
    /\ acc.log_level = before.log_level

\* C3 as stated: A uses B, both define env key K with different values:
\* the result holds A's value for K, and the keys only A or only B defines.
C3_ReferencingEnvWins ==
    (/\ status = "ok" /\ FileOk("A") /\ FileOk("B")
     /\ files["A"].doc.use_profile = <<"B">>
     /\ "K" \in DOMAIN files["A"].doc.env /\ "K" \in DOMAIN files["B"].doc.env
     /\ files["A"].doc.env["K"] # files["B"].doc.env["K"]
     /\ self0 = DefaultConfig) =>
        /\ (DOMAIN files["A"].doc.env \union DOMAIN files["B"].doc.env)
              \subseteq DOMAIN self.env
        /\ self.env["K"] = files["A"].doc.env["K"]

\* C4 as stated: a top-level call (Info) for a name none of whose candidate
\* paths exists appends as many log entries as there are candidate paths.
C4_OneEntryPerPath ==
    (status = "ok" /\ level_missing = "Info" /\ FindExisting(StartPaths) = 0) =>
        Len(merge_logs) = Len(StartPaths)

\* C4 amended: such a call appends exactly one log entry, which carries the
\* Info level and lists every candidate path.
C4_OneEntryListingPaths ==
    (status = "ok" /\ level_missing = "Info" /\ FindExisting(StartPaths) = 0) =>
        /\ Len(merge_logs) = 1
        /\ merge_logs[1].level = "Info"
        /\ merge_logs[1].msg = "using no config file"
        /\ merge_logs[1].paths = StartPaths

C4_Witness ==
    /\ status = "ok" /\ level_missing = "Info" /\ FindExisting(StartPaths) = 0
    /\ Len(StartPaths) = 3
    /\ Len(merge_logs) = 1

\* C5: a missing profile is never an error and never changes the
\* accumulator: its log entry has the caller's level at top level and Warn
\* for a referenced profile, a missing start profile returns Ok with the
\* accumulator untouched, and missing referenced profiles leave the
\* referencing profile merged as if it referenced nothing.
C5_MissingIsNoError ==
    /\ \A i \in DOMAIN merge_logs :
          merge_logs[i].msg = "using no config file" =>
              LET p == merge_logs[i].paths[1].file[1]
              IN /\ files[p].state = "missing"
                 /\ merge_logs[i].level =
                       IF p = StartProfile THEN level_missing ELSE "Warn"
    /\ (status # "init" /\ files[StartProfile].state = "missing") =>
          /\ status = "ok"
          /\ self = self0
          /\ Len(merge_logs) = 1
    /\ status = "err" => LastLog.msg = "using config"
    /\ (/\ status = "ok" /\ FileOk(StartProfile)
        /\ \A q \in Uses(StartProfile) : files[q].state = "missing") =>
          /\ self = Merge(self0, files[StartProfile].doc)
          /\ Len(merge_logs) = 1 + Len(files[StartProfile].doc.use_profile)

C5_Witness ==
    /\ status = "ok" /\ FileSets("A") /\ self0 = SeededConfig
    /\ files["A"].doc.use_profile = <<"B">>
    /\ files["B"].state = "missing"
    /\ Len(merge_logs) = 2
    /\ merge_logs[2].level = "Warn"
    /\ self.run_after = files["A"].doc.run_after

\* C6: a command hook is replaced by the incoming token sequence only while
\* the accumulator's sequence is empty; a non-empty hook is kept by every
\* later merge, whatever the incoming hook is.
C6_HookKeptOnceSet ==
    merges >= 1 =>
        /\ acc.run_before =
              IF before.run_before = <<>> THEN incoming.run_before
              ELSE before.run_before
        /\ acc.run_after =
              IF before.run_after = <<>> THEN incoming.run_after
              ELSE before.run_after

C6_Witness ==
    /\ merges = MaxMerges
    /\ before.run_before # <<>>
    /\ incoming.run_before # <<>>
    /\ incoming.run_before # before.run_before
    /\ acc.run_before = before.run_before

\* C7: merging the same document a second time leaves the command hooks and
\* the env map as the first merge left them, and only appends to
\* use_profile: what the first merge left is a prefix of the result.
C7_RemergeIdempotent ==
    again =>
        /\ acc.run_before = before.run_before
        /\ acc.run_after = before.run_after
        /\ acc.env = before.env
        /\ Len(acc.use_profile) >= Len(before.use_profile)
        /\ SubSeq(acc.use_profile, 1, Len(before.use_profile)) = before.use_profile

C7_Witness ==
    /\ again
    /\ incoming.run_before # <<>>
    /\ incoming.env # EmptyMap
    /\ incoming.use_profile # <<>>
    /\ Len(acc.use_profile) > Len(before.use_profile)

\* C8: run returns Ok without spawning when the command is not set; when set
\* it spawns the command once with the remaining tokens as arguments and
\* returns Ok for a zero and a non-zero exit status (the latter warns); it
\* returns an error only when the process could not be spawned.
C8_RunResult ==
    runs >= 1 =>
        /\ ~is_set(hook) => (result = "Ok" /\ spawned = <<>> /\ warnings = 0)
        /\ result = "Err" <=> outcome = "spawn-failed"
        /\ outcome \in {"exit-0", "exit-1"} =>
              /\ result = "Ok"
              /\ spawned # <<>>
              /\ spawned[Len(spawned)].program = hook[1]
              /\ spawned[Len(spawned)].args = Tail(hook)
        /\ Len(spawned) <= runs
        /\ warnings = Cardinality({i \in DOMAIN spawned : spawned[i].code # 0})

C8_Witness ==
    /\ runs >= 1 /\ outcome = "exit-1" /\ result = "Ok"
    /\ warnings >= 1 /\ Len(hook) = 2

\* C9 as stated: merge_profile terminates exactly when the reference graph
\* reachable from the start profile is acyclic.
C9_TerminatesIffAcyclic ==
    /\ status \in {"ok", "err"} => Acyclic
    /\ status = "overflow" => ~Acyclic

\* C9 amended: merge_profile returns Ok only on an acyclic graph, having
\* resolved every reference occurrence exactly once, and on an acyclic graph
\* the recursion is never deeper than the number of profiles; on a cyclic
\* graph it never returns Ok: it recurses without bound or returns the error
\* of a file resolved before the cycle is entered again.
C9_OkIffAcyclicNoError ==
    /\ status = "ok" =>
          /\ Acyclic
          /\ calls = ExpectedCalls(StartProfile, Cardinality(Profiles) + 1)
    /\ Acyclic =>
          /\ status # "overflow"
          /\ Len(stack) <= Cardinality(Profiles)
    /\ ~Acyclic => status \in {"init", "running", "overflow", "err"}

C9_Witness ==
    /\ status = "ok" /\ Chain /\ calls = 3
    /\ self.use_profile = self0.use_profile \o <<"B", "C">>

\* C10: when merge_profile returns an error the accumulator is as it was
\* before the call, and the log holds one entry for every call entered, the
\* last being the "using config" entry of the file that failed.
C10_ErrorKeepsAccumulator ==
    status = "err" =>
        /\ self = self0
        /\ stack = <<>>
        /\ Len(merge_logs) = calls
        /\ LastLog.msg = "using config"
        /\ files[LastLog.paths[1].file[1]].state = "bad"

C10_Witness ==
    /\ status = "err"
    /\ FileSets("A") /\ FileSets("B")
    /\ files["A"].doc.use_profile = <<"B", "C">>
    /\ files["C"].state = "bad"
    /\ Len(merge_logs) = 3

====
